---------------------------- MODULE Spec2Model ----------------------------
(***************************************************************************)
(* The crypto briefing pipeline: price ingestion (btc_eth_price.py), news  *)
(* ingestion with its relevance filter (fetch_news.py) and the digest run  *)
(* (send_summary.py).                                                      *)
(*                                                                         *)
(* A Python str is a sequence of symbols.  A symbol stands for a character *)
(* (the relevance filter's own specification) or for a word (the runs).    *)
(* A JSON value of an article field is a record [kind, text]: a string, a  *)
(* null (Python None) or an absent key.                                    *)
(***************************************************************************)
EXTENDS Integers, Sequences, FiniteSets, TLC

VARIABLES
    \* is_relevant_article applied to one article and one keyword
    rel_article, rel_keyword, rel_pc, rel_result,
    \* fetch_latest_news applied to one query and one answer of the provider
    fn_query, fn_outcome, fn_pc, fn_result,
    \* the fact store: table name -> rows, oldest first
    store,
    \* the news ingestion run (fetch_news.py main)
    news_pc, news_local, news_runs,
    \* the price ingestion run (btc_eth_price.py main): its position, its two
    \* locals, and what the run has seen and done so far, per asset
    price_pc, btc_price, eth_price, price_runs, price_seen, price_requests,
    price_insert_tried, price_quoted,
    \* the digest run (send_summary.py main)
    digest_pc, attempts, entry, log, reply, summary, gen_calls, email_body,
    send_calls, delivered

relVars == <<rel_article, rel_keyword, rel_pc, rel_result>>
fnVars == <<fn_query, fn_outcome, fn_pc, fn_result>>
newsVars == <<news_pc, news_local, news_runs>>
priceVars == <<price_pc, btc_price, eth_price, price_runs, price_seen, price_requests,
               price_insert_tried, price_quoted>>
digestVars == <<digest_pc, attempts, entry, log, reply, summary, gen_calls, email_body,
                send_calls, delivered>>

vars == <<relVars, fnVars, store, newsVars, priceVars, digestVars>>

\* what an action of one part leaves alone
relOthers == <<fnVars, store, newsVars, priceVars, digestVars>>
fnOthers == <<relVars, store, newsVars, priceVars, digestVars>>
newsOthers == <<relVars, fnVars, priceVars, digestVars>>
priceOthers == <<relVars, fnVars, newsVars, digestVars>>
digestOthers == <<relVars, fnVars, newsVars, priceVars, store>>

----------------------------------------------------------------------------
(* Bounds of the model *)

\* longest text of an article field, in symbols
MaxLen == 2
\* longest keyword, in symbols
MaxKw == 2
\* most candidates in one answer of the news provider
MaxBatch == 2
\* most ingestion runs in one behaviour
MaxRuns == 2

----------------------------------------------------------------------------
(* Python str *)

\* the symbols article fields and keywords are written in: an upper-case
\* letter, and a letter that lower() leaves alone
Alphabet == {"B", "x"}

RECURSIVE SeqsUpTo(_, _)
SeqsUpTo(S, n) ==
    IF n = 0 THEN {<<>>}
    ELSE LET shorter == SeqsUpTo(S, n - 1)
         IN  shorter \cup {Append(s, c) : s \in {t \in shorter : Len(t) = n - 1}, c \in S}

\* str.lower() on one symbol
LowerChar(c) ==
    CASE c = "B" -> "b"
      [] c = "Bitcoin" -> "bitcoin"
      [] c = "Ethereum" -> "ethereum"
      [] OTHER -> c

\* str.lower()
Lower(s) == [i \in 1..Len(s) |-> LowerChar(s[i])]

\* `k in s`
In(k, s) == \E i \in 1..(Len(s) - Len(k) + 1) : SubSeq(s, i, i + Len(k) - 1) = k

\* s.count(k): the scan of str.count, left to right, resuming after each match
RECURSIVE CountFrom(_, _, _)
CountFrom(s, k, i) ==
    IF i + Len(k) - 1 > Len(s) THEN 0
    ELSE IF SubSeq(s, i, i + Len(k) - 1) = k
         THEN 1 + CountFrom(s, k, i + (IF Len(k) = 0 THEN 1 ELSE Len(k)))
         ELSE CountFrom(s, k, i + 1)

Count(s, k) == CountFrom(s, k, 1)

----------------------------------------------------------------------------
(* Article candidates *)

Str(s) == [kind |-> "str", text |-> s]
None == [kind |-> "null", text |-> <<>>]
Absent == [kind |-> "absent", text |-> <<>>]

\* dict.get(key, default): the default only when the key is absent
Get(field, default) == IF field.kind = "absent" THEN default ELSE field

\* article.get(key, '').lower() raises AttributeError on None
LowerRaises(article) ==
    \/ Get(article.title, Str(<<>>)).kind = "null"
    \/ Get(article.description, Str(<<>>)).kind = "null"
    \/ Get(article.content, Str(<<>>)).kind = "null"

\* is_relevant_article threshold, `keyword_count >= 2`
Threshold == 2

\* is_relevant_article with `keyword = keyword.lower()` left out
is_relevant_article_RawKeyword(article, keyword) ==
    IF LowerRaises(article) THEN "AttributeError"
    ELSE LET title == Lower(Get(article.title, Str(<<>>)).text)
             description == Lower(Get(article.description, Str(<<>>)).text)
             content == Lower(Get(article.content, Str(<<>>)).text)
             keyword_count == Count(description, keyword) + Count(content, keyword)
         IN  IF In(keyword, title) THEN "True"
             ELSE IF keyword_count >= Threshold THEN "True" ELSE "False"

\* is_relevant_article(article, keyword): "True", "False" or the exception
\* that leaves it
is_relevant_article(article, keyword) ==
    IF LowerRaises(article) THEN "AttributeError"
    ELSE LET title == Lower(Get(article.title, Str(<<>>)).text)
             description == Lower(Get(article.description, Str(<<>>)).text)
             content == Lower(Get(article.content, Str(<<>>)).text)
             kw == Lower(keyword)
             keyword_count == Count(description, kw) + Count(content, kw)
         IN  IF In(kw, title) THEN "True"
             ELSE IF keyword_count >= Threshold THEN "True" ELSE "False"

----------------------------------------------------------------------------
(* The relevance filter on its own: every article and keyword within the   *)
(* bounds, one evaluation each.                                            *)

FieldValues == {Str(s) : s \in SeqsUpTo(Alphabet, MaxLen)} \cup {None, Absent}
Keywords == SeqsUpTo(Alphabet, MaxKw) \ {<<>>}

RelIdle ==
    /\ rel_article = [title |-> Absent, description |-> Absent, content |-> Absent]
    /\ rel_keyword = <<>>
    /\ rel_pc = "idle"
    /\ rel_result = "none"

RelStart ==
    /\ rel_article \in [title : FieldValues, description : FieldValues, content : FieldValues]
    /\ rel_keyword \in Keywords
    /\ rel_pc = "start"
    /\ rel_result = "none"

Evaluate ==
    /\ rel_pc = "start"
    /\ rel_result' = is_relevant_article(rel_article, rel_keyword)
    /\ rel_pc' = IF rel_result' = "AttributeError" THEN "raised" ELSE "returned"
    /\ UNCHANGED <<rel_article, rel_keyword, relOthers>>

----------------------------------------------------------------------------
(* fetch_latest_news *)

btc_query == <<"Bitcoin">>
eth_query == <<"Ethereum">>
Queries == {btc_query, eth_query}

NoRelevant == <<"No sufficiently relevant articles found.">>
NoArticles == <<"No articles found.">>

\* str(value) inside an f-string: None prints as the word None
PyStr(field) == IF field.kind = "str" THEN field.text ELSE <<"None">>

\* f"{title}: {description}" with title = article.get('title') and
\* description = article.get('description'): an absent key gives None
Headline(article) ==
    PyStr(Get(article.title, None)) \o <<": ">> \o PyStr(Get(article.description, None))

\* f"Error fetching news for {query}: {err}"
ErrorText(query, err) == <<"Error fetching news for ">> \o query \o <<": ">> \o <<err>>

Returned(text, n) == [raised |-> "none", text |-> text, examined |-> n]
Raised(exc, n) == [raised |-> exc, text |-> <<>>, examined |-> n]

\* the loop without its early return: the last relevant candidate wins
RECURSIVE ScanKeeping(_, _, _, _)
ScanKeeping(articles, query, i, kept) ==
    IF i > Len(articles) THEN kept
    ELSE LET verdict == is_relevant_article(articles[i], query)
         IN  IF verdict = "AttributeError" THEN Raised("AttributeError", i)
             ELSE IF verdict = "True"
                  THEN ScanKeeping(articles, query, i + 1, Returned(Headline(articles[i]), i))
             ELSE ScanKeeping(articles, query, i + 1, kept)

ScanFrom_LastMatch(articles, query, i) ==
    ScanKeeping(articles, query, i, Returned(NoRelevant, Len(articles)))

\* `for article in articles: if is_relevant_article(article, query): return ...`
\* from the i-th candidate on, and then `return "No sufficiently relevant ..."`
RECURSIVE ScanFrom(_, _, _)
ScanFrom(articles, query, i) ==
    IF i > Len(articles) THEN Returned(NoRelevant, Len(articles))
    ELSE LET verdict == is_relevant_article(articles[i], query)
         IN  IF verdict = "AttributeError" THEN Raised("AttributeError", i)
             ELSE IF verdict = "True" THEN Returned(Headline(articles[i]), i)
             ELSE ScanFrom(articles, query, i + 1)

\* fetch_latest_news(query), given what the provider does.  outcome.kind:
\*   "network"     requests.get raises (a RequestException)
\*   "http_error"  raise_for_status raises HTTPError
\*   "ok"          a JSON object; has_articles: data.get('articles') is a list
\* (A body that is no JSON is left out: what response.json() raises then
\* depends on the installed requests.)
fetch_latest_news(query, outcome) ==
    CASE outcome.kind = "network" -> Returned(ErrorText(query, "ConnectionError"), 0)
      [] outcome.kind = "http_error" -> Returned(ErrorText(query, "HTTPError"), 0)
      [] OTHER ->
            IF outcome.has_articles /\ outcome.articles # <<>>
            THEN ScanFrom(outcome.articles, query, 1)
            ELSE Returned(NoArticles, 0)

\* The candidates the provider may return for a query: each field a string
\* that mentions the query or does not, a null, or (description) no key.
Candidates(query) ==
    [title : {None, Str(query), Str(<<"x">>)},
     description : {Absent, None, Str(Lower(query)), Str(<<"x">>)},
     content : {None, Str(query), Str(<<"x">>)}]

NoBatch(kind) == [kind |-> kind, has_articles |-> FALSE, articles |-> <<>>]

Outcomes(query) ==
    {NoBatch("network"), NoBatch("http_error"), NoBatch("ok")}
    \cup {[kind |-> "ok", has_articles |-> TRUE, articles |-> b] :
            b \in SeqsUpTo(Candidates(query), MaxBatch)}

FnIdle ==
    /\ fn_query = <<>>
    /\ fn_outcome = NoBatch("none")
    /\ fn_pc = "idle"
    /\ fn_result = Returned(<<>>, 0)

FnStart ==
    /\ fn_query \in Queries
    /\ fn_outcome \in Outcomes(fn_query)
    /\ fn_pc = "start"
    /\ fn_result = Returned(<<>>, 0)

FetchLatestNews ==
    /\ fn_pc = "start"
    /\ fn_result' = fetch_latest_news(fn_query, fn_outcome)
    /\ fn_pc' = IF fn_result'.raised = "none" THEN "returned" ELSE "raised"
    /\ UNCHANGED <<fn_query, fn_outcome, fnOthers>>

----------------------------------------------------------------------------
(* The fact store *)

Tables == {"btc_prices", "eth_prices", "btc_news", "eth_news"}

EmptyStore == [t \in Tables |-> <<>>]

\* supabase.table(table).insert(data).execute() when the store accepts it
Insert(table, value) == [store EXCEPT ![table] = Append(@, value)]

----------------------------------------------------------------------------
(* News ingestion: fetch_news.py main, one step per call it makes *)

NewsIdle ==
    /\ news_pc = "idle"
    /\ news_local = <<>>
    /\ news_runs = 0

NewsStart ==
    /\ news_pc = "fetch_btc"
    /\ news_local = <<>>
    /\ news_runs = 1

\* btc_news = fetch_latest_news(btc_query) / eth_news = fetch_latest_news(eth_query)
NewsFetch(at, query, next) ==
    /\ news_pc = at
    /\ \E outcome \in Outcomes(query) :
         LET r == fetch_latest_news(query, outcome)
         IN  IF r.raised = "none"
             THEN news_local' = r.text /\ news_pc' = next
             ELSE news_local' = <<>> /\ news_pc' = "crashed"
    /\ UNCHANGED <<news_runs, store, newsOthers>>

\* insert_news(table, news): the row is written, or the store refuses or
\* raises, which is logged and swallowed
insert_news(at, table, next) ==
    /\ news_pc = at
    /\ \E accepted \in BOOLEAN :
         store' = IF accepted THEN Insert(table, news_local) ELSE store
    /\ news_pc' = next
    /\ UNCHANGED <<news_local, news_runs, newsOthers>>

\* the scheduler starts the next run after the last one ended
NewsNextRun ==
    /\ news_pc \in {"done", "crashed"}
    /\ news_runs < MaxRuns
    /\ news_pc' = "fetch_btc"
    /\ news_local' = <<>>
    /\ news_runs' = news_runs + 1
    /\ UNCHANGED <<store, newsOthers>>

NewsFetchBtc == NewsFetch("fetch_btc", btc_query, "insert_btc")
NewsInsertBtc == insert_news("insert_btc", "btc_news", "fetch_eth")
NewsFetchEth == NewsFetch("fetch_eth", eth_query, "insert_eth")
NewsInsertEth == insert_news("insert_eth", "eth_news", "done")

----------------------------------------------------------------------------
(* fetch_crypto_price and store_price *)

Assets == {"BTC", "ETH"}

\* the quotes the price provider may give
Quotes == {100, 200}

Price(p) == [some |-> TRUE, value |-> p]
NoPrice == [some |-> FALSE, value |-> 0]

\* What the price provider does.  kind: "network" (requests.get raises),
\* "http_error" (raise_for_status raises) or "ok" (a 2xx answer with a JSON
\* body).  payload, read when kind = "ok":
\*   "quote"       {crypto_id: {"usd": usd}}
\*   "no_id"       an object without the key crypto_id
\*   "no_usd"      {crypto_id: {}}
\*   "not_object"  JSON that is no object of objects, such as [] or {crypto_id: 5}
PriceOutcomes ==
    {[kind |-> k, payload |-> "none", usd |-> 0] : k \in {"network", "http_error"}}
    \cup {[kind |-> "ok", payload |-> "quote", usd |-> p] : p \in Quotes}
    \cup {[kind |-> "ok", payload |-> w, usd |-> 0] : w \in {"no_id", "no_usd", "not_object"}}

\* fetch_crypto_price(crypto_id): one requests.get, then the price, None (the
\* except clause catches requests.RequestException only) or the exception
\* that data[crypto_id]['usd'] raises
fetch_crypto_price(outcome) ==
    CASE outcome.kind \in {"network", "http_error"} ->
            [raised |-> "none", price |-> NoPrice, requests |-> 1]
      [] outcome.kind = "ok" /\ outcome.payload = "quote" ->
            [raised |-> "none", price |-> Price(outcome.usd), requests |-> 1]
      [] outcome.kind = "ok" /\ outcome.payload \in {"no_id", "no_usd"} ->
            [raised |-> "KeyError", price |-> NoPrice, requests |-> 1]
      [] OTHER ->
            [raised |-> "TypeError", price |-> NoPrice, requests |-> 1]

PriceIdle ==
    /\ price_pc = "idle"
    /\ btc_price = NoPrice
    /\ eth_price = NoPrice
    /\ price_runs = 0
    /\ price_seen = [a \in Assets |-> "no_call"]
    /\ price_requests = [a \in Assets |-> 0]
    /\ price_insert_tried = [a \in Assets |-> FALSE]
    /\ price_quoted = [a \in Assets |-> {}]

PriceStart ==
    /\ price_pc = "fetch_btc"
    /\ btc_price = NoPrice
    /\ eth_price = NoPrice
    /\ price_runs = 1
    /\ price_seen = [a \in Assets |-> "no_call"]
    /\ price_requests = [a \in Assets |-> 0]
    /\ price_insert_tried = [a \in Assets |-> FALSE]
    /\ price_quoted = [a \in Assets |-> {}]

\* price_seen: what the provider answered to the run's call for the asset;
\* price_quoted: the quotes it has given for the asset in any run
Seen(outcome) == IF outcome.kind = "ok" THEN outcome.payload ELSE outcome.kind

\* btc_price = fetch_crypto_price('bitcoin'): an exception leaving the call
\* ends main
PriceFetchBtc ==
    /\ price_pc = "fetch_btc"
    /\ \E outcome \in PriceOutcomes :
         LET r == fetch_crypto_price(outcome)
         IN  /\ btc_price' = r.price
             /\ price_pc' = IF r.raised = "none" THEN "fetch_eth" ELSE "crashed"
             /\ price_seen' = [price_seen EXCEPT !["BTC"] = Seen(outcome)]
             /\ price_requests' = [price_requests EXCEPT !["BTC"] = @ + r.requests]
             /\ price_quoted' = [price_quoted EXCEPT !["BTC"] =
                                    IF Seen(outcome) = "quote" THEN @ \cup {outcome.usd} ELSE @]
    /\ UNCHANGED <<eth_price, price_runs, price_insert_tried, store, priceOthers>>

\* eth_price = fetch_crypto_price('ethereum')
PriceFetchEth ==
    /\ price_pc = "fetch_eth"
    /\ \E outcome \in PriceOutcomes :
         LET r == fetch_crypto_price(outcome)
         IN  /\ eth_price' = r.price
             /\ price_pc' = IF r.raised = "none" THEN "store_btc" ELSE "crashed"
             /\ price_seen' = [price_seen EXCEPT !["ETH"] = Seen(outcome)]
             /\ price_requests' = [price_requests EXCEPT !["ETH"] = @ + r.requests]
             /\ price_quoted' = [price_quoted EXCEPT !["ETH"] =
                                    IF Seen(outcome) = "quote" THEN @ \cup {outcome.usd} ELSE @]
    /\ UNCHANGED <<btc_price, price_runs, price_insert_tried, store, priceOthers>>

\* store_price(table_name, price): nothing for None; else one insert, which
\* the store accepts or which fails (logged, swallowed)
store_price(asset, table_name, price, next) ==
    /\ \E accepted \in BOOLEAN :
         /\ store' = IF price.some /\ accepted THEN Insert(table_name, price.value) ELSE store
         /\ price_insert_tried' = [price_insert_tried EXCEPT ![asset] = price.some]
    /\ price_pc' = next
    /\ UNCHANGED <<btc_price, eth_price, price_runs, price_seen, price_requests,
                   price_quoted, priceOthers>>

PriceStoreBtc == price_pc = "store_btc" /\ store_price("BTC", "btc_prices", btc_price, "store_eth")
PriceStoreEth == price_pc = "store_eth" /\ store_price("ETH", "eth_prices", eth_price, "done")

\* the scheduler starts the next run after the last one ended
PriceNextRun ==
    /\ price_pc \in {"done", "crashed"}
    /\ price_runs < MaxRuns
    /\ price_pc' = "fetch_btc"
    /\ btc_price' = NoPrice
    /\ eth_price' = NoPrice
    /\ price_runs' = price_runs + 1
    /\ price_seen' = [a \in Assets |-> "no_call"]
    /\ price_requests' = [a \in Assets |-> 0]
    /\ price_insert_tried' = [a \in Assets |-> FALSE]
    /\ UNCHANGED <<store, price_quoted, priceOthers>>

----------------------------------------------------------------------------
(* The digest run *)

\* most rows of a table when a digest run starts
MaxRows == 2

\* @retry(stop=stop_after_attempt(3), ...)
StopAfterAttempt == 3

\* The rows ingestion has left in the tables when the digest run starts: the
\* i-th price and the i-th news text written (a sentinel is stored like a
\* headline).
PriceRow(i) == 100 * i
NewsRow(i) == IF i % 2 = 1 THEN <<"Bitcoin up", ": ", "x">> ELSE NoArticles
RowsOf(table, n) ==
    [i \in 1..n |-> IF table \in {"btc_prices", "eth_prices"} THEN PriceRow(i) ELSE NewsRow(i)]

\* a dict returned by fetch_latest_entry: {} is data = <<>>, a row is <<row>>
Dict(data) == [returned |-> TRUE, data |-> data]
NoEntry == [returned |-> FALSE, data |-> <<>>]

\* fetch_latest_entry returning data[0] without `if data`: IndexError on no rows
fetch_latest_entry_Unchecked(rows, store_raises) ==
    IF store_raises \/ rows = <<>> THEN [raised |-> TRUE, result |-> NoEntry]
    ELSE [raised |-> FALSE, result |-> Dict(<<rows[Len(rows)]>>)]

\* One attempt of fetch_latest_entry, its body: the select raises (logged,
\* re-raised), or response.data holds the latest row or nothing.
\* order("created_at", desc=True).limit(1) gives the row written last.
fetch_latest_entry(rows, store_raises) ==
    IF store_raises THEN [raised |-> TRUE, result |-> NoEntry]
    ELSE IF rows # <<>> THEN [raised |-> FALSE, result |-> Dict(<<rows[Len(rows)]>>)]
    ELSE [raised |-> FALSE, result |-> Dict(<<>>)]

\* the stop condition off by one: a fourth attempt
RetryAgain_OneMore(n) == n <= StopAfterAttempt

\* tenacity's decision after the n-th attempt raised: try again (after the
\* fixed wait), or stop and raise to the caller
RetryAgain(n) == n < StopAfterAttempt

\* attempts[table]: what the store did at each attempt of the run's call for
\* the table, and how the attempt ended
Attempt(store_raises, raised) ==
    [store |-> IF store_raises THEN "raised" ELSE "answered",
     ended |-> IF raised THEN "raised" ELSE "returned"]

Error(text, about) == [level |-> "ERROR", text |-> text, about |-> about]
Warning(text, about) == [level |-> "WARNING", text |-> text, about |-> about]

DigestIdle ==
    /\ digest_pc = "idle"
    /\ attempts = [t \in Tables |-> <<>>]
    /\ entry = [t \in Tables |-> NoEntry]
    /\ log = <<>>
    /\ reply = [a \in Assets |-> [called |-> FALSE, failed |-> FALSE, text |-> <<>>]]
    /\ summary = [a \in Assets |-> <<>>]
    /\ gen_calls = [a \in Assets |-> 0]
    /\ email_body = <<>>
    /\ send_calls = 0
    /\ delivered = FALSE

DigestStart ==
    /\ digest_pc = "read_btc_prices"
    /\ attempts = [t \in Tables |-> <<>>]
    /\ entry = [t \in Tables |-> NoEntry]
    /\ log = <<>>
    /\ reply = [a \in Assets |-> [called |-> FALSE, failed |-> FALSE, text |-> <<>>]]
    /\ summary = [a \in Assets |-> <<>>]
    /\ gen_calls = [a \in Assets |-> 0]
    /\ email_body = <<>>
    /\ send_calls = 0
    /\ delivered = FALSE

DigestStores == {[t \in Tables |-> RowsOf(t, n[t])] : n \in [Tables -> 0..MaxRows]}

\* x_entry = fetch_latest_entry(table, column), one attempt per step: the
\* attempt returns, or raises and tenacity tries again, or raises for the
\* last time and the exception leaves main
DigestRead(at, table, next) ==
    /\ digest_pc = at
    /\ \E store_raises \in BOOLEAN :
         LET r == fetch_latest_entry(store[table], store_raises)
             n == Len(attempts[table]) + 1
         IN  /\ attempts' = [attempts EXCEPT ![table] = Append(@, Attempt(store_raises, r.raised))]
             /\ entry' = [entry EXCEPT ![table] = r.result]
             /\ log' = IF r.raised THEN Append(log, Error("Exception while fetching", table))
                       ELSE IF r.result.data = <<>> THEN Append(log, Warning("No data found", table))
                       ELSE log
             /\ digest_pc' = IF ~r.raised THEN next
                             ELSE IF RetryAgain(n) THEN at ELSE "crashed"
    /\ UNCHANGED <<reply, summary, gen_calls, email_body, send_calls, delivered, digestOthers>>

ReadBtcPrices == DigestRead("read_btc_prices", "btc_prices", "read_btc_news")
ReadBtcNews == DigestRead("read_btc_news", "btc_news", "read_eth_prices")
ReadEthPrices == DigestRead("read_eth_prices", "eth_prices", "read_eth_news")
ReadEthNews == DigestRead("read_eth_news", "eth_news", "check")

\* the check with `and` for `or`
Incomplete_Both(price_entry, news_entry) == price_entry.data = <<>> /\ news_entry.data = <<>>

\* `not x_price_entry or not x_news_entry`
Incomplete(price_entry, news_entry) == price_entry.data = <<>> \/ news_entry.data = <<>>

\* "Check if all necessary data is available": BTC first, then ETH
CheckData ==
    /\ digest_pc = "check"
    /\ IF Incomplete(entry["btc_prices"], entry["btc_news"])
       THEN /\ log' = Append(log, Error("Incomplete data. Aborting email composition.", "BTC"))
            /\ digest_pc' = "aborted"
       ELSE IF Incomplete(entry["eth_prices"], entry["eth_news"])
       THEN /\ log' = Append(log, Error("Incomplete data. Aborting email composition.", "ETH"))
            /\ digest_pc' = "aborted"
       ELSE /\ log' = log
            /\ digest_pc' = "summarize_btc"
    /\ UNCHANGED <<attempts, entry, reply, summary, gen_calls, email_body, send_calls,
                   delivered, digestOthers>>

\* what the text-generation provider may answer
Replies == {<<"analysis">>, <<" ", "analysis", "\n">>}

IsSpace(c) == c \in {" ", "\n"}

\* str.strip()
RECURSIVE Strip(_)
Strip(s) ==
    IF s = <<>> THEN s
    ELSE IF IsSpace(s[1]) THEN Strip(SubSeq(s, 2, Len(s)))
    ELSE IF IsSpace(s[Len(s)]) THEN Strip(SubSeq(s, 1, Len(s) - 1))
    ELSE s

Fallback == <<"Summary generation failed.">>

\* generate_summary without its fallback: nothing comes back from a failed call
generate_summary_NoFallback(answer) == Strip(answer.text)

\* generate_summary(prompt): the provider's text, stripped, or the fallback
\* on any exception
generate_summary(answer) == IF answer.failed THEN Fallback ELSE Strip(answer.text)

Answers ==
    {[called |-> TRUE, failed |-> TRUE, text |-> <<>>]}
    \cup {[called |-> TRUE, failed |-> FALSE, text |-> t] : t \in Replies}

\* x_summary = generate_summary(x_prompt)
Summarize(at, asset, next) ==
    /\ digest_pc = at
    /\ \E answer \in Answers :
         /\ reply' = [reply EXCEPT ![asset] = answer]
         /\ summary' = [summary EXCEPT ![asset] = generate_summary(answer)]
    /\ gen_calls' = [gen_calls EXCEPT ![asset] = @ + 1]
    /\ digest_pc' = next
    /\ UNCHANGED <<attempts, entry, log, email_body, send_calls, delivered, digestOthers>>

SummarizeBtc == Summarize("summarize_btc", "BTC", "summarize_eth")
SummarizeEth == Summarize("summarize_eth", "ETH", "send")

\* compose_email(btc_summary, eth_summary)
compose_email(btc_summary, eth_summary) ==
    <<"**Bitcoin (BTC) Summary:**\n">> \o btc_summary \o <<"\n\n">>
    \o <<"**Ethereum (ETH) Summary:**\n">> \o eth_summary

\* email_body = compose_email(...); send_email(email_subject, email_body):
\* delivered, or an exception that is logged and turned into False
SendDigest ==
    /\ digest_pc = "send"
    /\ email_body' = compose_email(summary["BTC"], summary["ETH"])
    /\ send_calls' = send_calls + 1
    /\ \E ok \in BOOLEAN :
         /\ delivered' = ok
         /\ log' = IF ok THEN log ELSE Append(log, Error("Exception while sending email", "email"))
    /\ digest_pc' = "done"
    /\ UNCHANGED <<attempts, entry, reply, summary, gen_calls, digestOthers>>

DigestNext ==
    \/ ReadBtcPrices \/ ReadBtcNews \/ ReadEthPrices \/ ReadEthNews
    \/ CheckData \/ SummarizeBtc \/ SummarizeEth \/ SendDigest

----------------------------------------------------------------------------
(* Specifications *)

RelevanceInit ==
    /\ RelStart /\ FnIdle /\ NewsIdle /\ PriceIdle /\ DigestIdle /\ store = EmptyStore
RelevanceNext == Evaluate
SpecRelevance == RelevanceInit /\ [][RelevanceNext]_vars

FetchNewsInit ==
    /\ FnStart /\ RelIdle /\ NewsIdle /\ PriceIdle /\ DigestIdle /\ store = EmptyStore
FetchNewsNext == FetchLatestNews
SpecFetchNews == FetchNewsInit /\ [][FetchNewsNext]_vars

NewsInit ==
    /\ NewsStart /\ RelIdle /\ FnIdle /\ PriceIdle /\ DigestIdle /\ store = EmptyStore
NewsNext ==
    \/ NewsFetchBtc \/ NewsInsertBtc \/ NewsFetchEth \/ NewsInsertEth \/ NewsNextRun
SpecNews == NewsInit /\ [][NewsNext]_vars

PriceInit ==
    /\ PriceStart /\ RelIdle /\ FnIdle /\ NewsIdle /\ DigestIdle /\ store = EmptyStore
PriceNext ==
    \/ PriceFetchBtc \/ PriceFetchEth \/ PriceStoreBtc \/ PriceStoreEth \/ PriceNextRun
SpecPrice == PriceInit /\ [][PriceNext]_vars

DigestInit ==
    /\ DigestStart /\ RelIdle /\ FnIdle /\ NewsIdle /\ PriceIdle /\ store \in DigestStores
SpecDigest == DigestInit /\ [][DigestNext]_vars

----------------------------------------------------------------------------
(* The relevance rule, stated on its own: occurrences by position, not by  *)
(* the scan of str.count.                                                  *)

\* the positions of s where k occurs
OccursAt(k, s) ==
    {i \in 1..Len(s) : i + Len(k) - 1 <= Len(s) /\ \A j \in 1..Len(k) : s[i + j - 1] = k[j]}

\* the number of occurrences of k in s: the most occurrences no two of which
\* overlap
Occurrences(k, s) ==
    LET sizes == {Cardinality(P) : P \in {Q \in SUBSET OccursAt(k, s) :
                    \A i, j \in Q : i # j => (i + Len(k) <= j \/ j + Len(k) <= i)}}
    IN  CHOOSE n \in sizes : \A m \in sizes : m <= n

\* the text of a field that is a string, '' for a field that is not there
TextOf(field) == IF field.kind = "str" THEN field.text ELSE <<>>

\* no field of the article is a JSON null
NoNull(article) ==
    /\ article.title.kind # "null"
    /\ article.description.kind # "null"
    /\ article.content.kind # "null"

Mentions(article, keyword) ==
    Occurrences(Lower(keyword), Lower(TextOf(article.description)))
    + Occurrences(Lower(keyword), Lower(TextOf(article.content)))

InTitle(article, keyword) == OccursAt(Lower(keyword), Lower(TextOf(article.title))) # {}

RuleAccepts(article, keyword) == InTitle(article, keyword) \/ Mentions(article, keyword) >= 2

FirstAccepted(batch, query) ==
    {i \in 1..Len(batch) :
        /\ \A j \in 1..i : NoNull(batch[j])
        /\ RuleAccepts(batch[i], query)
        /\ \A j \in 1..(i - 1) : ~RuleAccepts(batch[j], query)}

C8_NeverRaises ==
    /\ fn_pc # "raised"
    /\ (fn_pc = "returned" /\ fn_outcome.kind = "http_error") =>
          OccursAt(fn_query, fn_result.text) # {}

\* the texts of the candidates that pass the relevance filter
FilteredTexts(query) ==
    {Headline(c) : c \in {a \in Candidates(query) : is_relevant_article(a, query) = "True"}}

\* C6: every NEWS value in btc_news and eth_news is the text of a candidate
\* that passed the relevance filter.
C6_StoreHoldsFilteredNews ==
    /\ \A i \in 1..Len(store["btc_news"]) : store["btc_news"][i] \in FilteredTexts(btc_query)
    /\ \A i \in 1..Len(store["eth_news"]) : store["eth_news"][i] \in FilteredTexts(eth_query)

----------------------------------------------------------------------------
(* Price ingestion *)

PriceTable(asset) == IF asset = "BTC" THEN store["btc_prices"] ELSE store["eth_prices"]
LocalPrice(asset) == IF asset = "BTC" THEN btc_price ELSE eth_price

\* C9: fetch_crypto_price returns a price or FAILURE to its caller and lets
\* no exception escape, whatever the provider answers, and makes exactly one
\* request per call.
C9_NoExceptionEscapes ==
    /\ price_pc # "crashed"
    /\ \A a \in Assets :
         price_seen[a] # "no_call" =>
            /\ price_requests[a] = 1
            /\ LocalPrice(a).some = (price_seen[a] = "quote")

\* C7: every PRICE value in a table is a quote a successful fetch returned
\* for that asset; and when a run has ended, it has made no insert for an
\* asset whose fetch failed and has made the insert for an asset whose fetch
\* succeeded, whatever happened to the other asset's fetch.
C7_FailedFetchWritesNothing ==
    /\ \A a \in Assets : \A i \in 1..Len(PriceTable(a)) : PriceTable(a)[i] \in price_quoted[a]
    /\ price_pc \in {"done", "crashed"} =>
         \A a \in Assets :
            /\ price_seen[a] = "quote" => price_insert_tried[a]
            /\ price_seen[a] # "quote" => ~price_insert_tried[a]

----------------------------------------------------------------------------
(* The digest run *)

\* the row of a table written last, as fetch_latest_entry's caller sees it:
\* nothing (EMPTY) for a table without rows
Latest(table) ==
    IF store[table] = <<>> THEN <<>> ELSE <<store[table][Len(store[table])]>>

ReadPc(table) == "read_" \o table

AllRaised(h) == \A i \in 1..Len(h) : h[i].ended = "raised"

\* C3: one call of fetch_latest_entry makes at most 3 attempts, each but the
\* first after the one before it raised; when an attempt returns, the call
\* returns that attempt's result; the call raises to main exactly when 3
\* attempts have raised, and then leaves no entry behind.
C3_BoundedRetry ==
    /\ \A t \in Tables :
         LET h == attempts[t]
         IN  /\ Len(h) <= 3
             /\ \A i \in 1..(Len(h) - 1) : h[i].ended = "raised"
             /\ (h # <<>> /\ h[Len(h)].ended = "returned") =>
                   (entry[t] = Dict(Latest(t)) /\ digest_pc # ReadPc(t))
             /\ (h # <<>> /\ AllRaised(h) /\ Len(h) < 3) => digest_pc = ReadPc(t)
             /\ (AllRaised(h) /\ Len(h) = 3) => (digest_pc = "crashed" /\ ~entry[t].returned)
    /\ digest_pc = "crashed" => \E t \in Tables : AllRaised(attempts[t]) /\ Len(attempts[t]) = 3

\* C3, its cases: a call that returned on its third attempt, and the next
\* call raising to main after three.
C3_Witness ==
    /\ Len(attempts["btc_prices"]) = 3
    /\ attempts["btc_prices"][3].ended = "returned"
    /\ entry["btc_prices"].returned
    /\ Len(attempts["btc_news"]) = 3
    /\ AllRaised(attempts["btc_news"])
    /\ digest_pc = "crashed"

\* C4: an attempt at which the store answers ends the call: it returns the
\* latest row, or EMPTY for a table without rows, and is the call's last
\* attempt; EMPTY is returned only so, never after the attempts ran out.
C4_EmptyIsNotFailure ==
    \A t \in Tables :
        LET h == attempts[t]
        IN  /\ \A i \in 1..Len(h) :
                 h[i].store = "answered" =>
                    /\ h[i].ended = "returned"
                    /\ i = Len(h)
                    /\ entry[t] = Dict(Latest(t))
                    /\ digest_pc # ReadPc(t)
            /\ (entry[t].returned /\ entry[t].data = <<>>) =>
                  (h # <<>> /\ h[Len(h)].store = "answered" /\ store[t] = <<>>)
            /\ (h # <<>> /\ h[Len(h)].store = "raised") => ~entry[t].returned

\* C4, its case: the store raised once, then answered with no rows; the
\* call returned EMPTY and the run went on to the next read.
C4_Witness ==
    /\ store["btc_prices"] = <<>>
    /\ Len(attempts["btc_prices"]) = 2
    /\ attempts["btc_prices"][2].store = "answered"
    /\ entry["btc_prices"] = Dict(<<>>)
    /\ digest_pc = "read_btc_news"

AbortText == "Incomplete data. Aborting email composition."
AbortLogs == {i \in 1..Len(log) : log[i].text = AbortText}

IsEmpty(t) == entry[t].returned /\ entry[t].data = <<>>
IsRow(t) == entry[t].returned /\ entry[t].data # <<>>
AssetIncomplete(a) ==
    IF a = "BTC" THEN IsEmpty("btc_prices") \/ IsEmpty("btc_news")
    ELSE IsEmpty("eth_prices") \/ IsEmpty("eth_news")

RunEnded == digest_pc \in {"done", "aborted", "crashed"}
NoSummaryNoEmail == (\A a \in Assets : gen_calls[a] = 0) /\ send_calls = 0

\* C5, as claimed: in every digest run, if a latest read came back EMPTY the
\* run ends without summarizer call and without email, and with an error
\* logged that names an asset whose data is incomplete; an email is sent
\* only when all four reads returned a row.
C5_AsClaimed ==
    /\ (\E t \in Tables : IsEmpty(t)) => NoSummaryNoEmail
    /\ (RunEnded /\ \E t \in Tables : IsEmpty(t)) =>
          \E i \in AbortLogs : log[i].level = "ERROR" /\ AssetIncomplete(log[i].about)
    /\ send_calls > 0 => \A t \in Tables : IsRow(t)

\* C5, amended: the error naming the asset is logged in the runs in which
\* all four reads return; a run in which a later read runs out of attempts
\* ends on that exception, before the check, with no such error logged.
C5_AbortOnIncomplete ==
    /\ (\E t \in Tables : IsEmpty(t)) => NoSummaryNoEmail
    /\ (RunEnded /\ (\A t \in Tables : entry[t].returned) /\ \E t \in Tables : IsEmpty(t)) =>
          /\ digest_pc = "aborted"
          /\ Cardinality(AbortLogs) = 1
          /\ \A i \in AbortLogs :
               /\ log[i].level = "ERROR"
               /\ AssetIncomplete(log[i].about)
               /\ log[i].about = IF AssetIncomplete("BTC") THEN "BTC" ELSE "ETH"
    /\ (RunEnded /\ ~(\A t \in Tables : entry[t].returned)) =>
          (digest_pc = "crashed" /\ AbortLogs = {} /\ NoSummaryNoEmail)
    /\ send_calls > 0 => \A t \in Tables : IsRow(t)

\* C5, its case: BTC complete, the latest ETH news EMPTY; the run aborted
\* with the error naming ETH.
C5_Witness ==
    /\ digest_pc = "aborted"
    /\ IsRow("btc_prices") /\ IsRow("btc_news") /\ IsRow("eth_prices")
    /\ IsEmpty("eth_news")
    /\ log[Len(log)] = Error(AbortText, "ETH")
    /\ NoSummaryNoEmail

\* the block an asset's summarizer call should leave in the digest
Block(a) == IF reply[a].failed THEN Fallback ELSE Strip(reply[a].text)

\* C10: once all four reads returned a row, a failed text-generation call
\* does not end the run; the digest sent holds the BTC block then the ETH
\* block, the fallback text in the block of an asset whose call failed and
\* the provider's summary in the other; the summarizer is called once per
\* asset and delivery is attempted once.
C10_FallbackDigest ==
    /\ \A a \in Assets :
         /\ gen_calls[a] <= 1
         /\ reply[a].called => (gen_calls[a] = 1 /\ summary[a] = Block(a))
         /\ reply[a].called => digest_pc \in {"summarize_eth", "send", "done"}
    /\ send_calls <= 1
    /\ digest_pc = "done" =>
         /\ \A a \in Assets : gen_calls[a] = 1
         /\ send_calls = 1
         /\ email_body = <<"**Bitcoin (BTC) Summary:**\n">> \o Block("BTC") \o <<"\n\n">>
                         \o <<"**Ethereum (ETH) Summary:**\n">> \o Block("ETH")

\* C10, its case: the call for BTC failed, the call for ETH succeeded, and
\* the digest was handed to delivery.
C10_Witness ==
    /\ digest_pc = "done"
    /\ reply["BTC"].failed
    /\ ~reply["ETH"].failed
    /\ send_calls = 1
    /\ email_body = <<"**Bitcoin (BTC) Summary:**\n">> \o Fallback \o <<"\n\n">>
                    \o <<"**Ethereum (ETH) Summary:**\n", "analysis">>

=============================================================================
